---------------------------- MODULE Spec2Model ----------------------------
(***************************************************************************)
(* A model of scripts/sync_to_servicenow.py: the Excel-to-ServiceNow sync. *)
(*                                                                         *)
(* Text is modelled as a sequence of one-character strings, so that the    *)
(* string operations of the code (strip, lower, split, float parsing) are  *)
(* computed and not assumed.  The token "deg" stands for the degree sign.  *)
(***************************************************************************)
EXTENDS Integers, Sequences, FiniteSets, TLC

(***************************************************************************)
(* Characters and strings                                                  *)
(***************************************************************************)
Digits == <<"0", "1", "2", "3", "4", "5", "6", "7", "8", "9">>

UpperLetters == <<"A", "B", "C", "D", "E", "F", "G", "H", "I", "J", "K", "L", "M",
                  "N", "O", "P", "Q", "R", "S", "T", "U", "V", "W", "X", "Y", "Z">>

LowerLetters == <<"a", "b", "c", "d", "e", "f", "g", "h", "i", "j", "k", "l", "m",
                  "n", "o", "p", "q", "r", "s", "t", "u", "v", "w", "x", "y", "z">>

IsDigit(c) == \E i \in 1..10 : Digits[i] = c

DigitVal(c) == (CHOOSE i \in 1..10 : Digits[i] = c) - 1

\* str.lower() and str.upper(), one character
ToLowerChar(c) ==
    IF \E i \in 1..26 : UpperLetters[i] = c
    THEN LowerLetters[CHOOSE i \in 1..26 : UpperLetters[i] = c]
    ELSE c

ToUpperChar(c) ==
    IF \E i \in 1..26 : LowerLetters[i] = c
    THEN UpperLetters[CHOOSE i \in 1..26 : LowerLetters[i] = c]
    ELSE c

ToLower(s) == [i \in 1..Len(s) |-> ToLowerChar(s[i])]

ToUpper(s) == [i \in 1..Len(s) |-> ToUpperChar(s[i])]

IsSpace(c) == c = " "

\* str.strip(): the first and last non-blank positions
Strip(s) ==
    LET keep == {i \in 1..Len(s) : ~IsSpace(s[i])}
    IN  IF keep = {} THEN <<>>
        ELSE LET lo == CHOOSE i \in keep : \A j \in keep : i <= j
                 hi == CHOOSE i \in keep : \A j \in keep : j <= i
             IN  SubSeq(s, lo, hi)

\* c in s
Contains(s, c) == \E i \in 1..Len(s) : s[i] = c

\* s.count(c)
Count(s, c) == Cardinality({i \in 1..Len(s) : s[i] = c})

\* s.split(c)[0]
BeforeFirst(s, c) ==
    IF Contains(s, c)
    THEN SubSeq(s, 1, (CHOOSE i \in 1..Len(s) : s[i] = c /\ \A j \in 1..(i-1) : s[j] # c) - 1)
    ELSE s

\* what follows the first c of s, nothing without one
AfterFirst(s, c) ==
    IF Contains(s, c)
    THEN SubSeq(s, (CHOOSE i \in 1..Len(s) : s[i] = c /\ \A j \in 1..(i-1) : s[j] # c) + 1, Len(s))
    ELSE <<>>

\* s.endswith(c)
EndsWith(s, c) == Len(s) > 0 /\ s[Len(s)] = c

\* sub in s, for a substring
HasSubstring(s, sub) ==
    \E i \in 1..(Len(s) - Len(sub) + 1) : SubSeq(s, i, i + Len(sub) - 1) = sub

\* s.replace(c, '')
RemoveChar(s, c) == SelectSeq(s, LAMBDA x : x # c)

\* s.replace(a + b, ''), left to right
RECURSIVE RemovePair(_, _, _)
RemovePair(s, a, b) ==
    IF Len(s) < 2 THEN s
    ELSE IF s[1] = a /\ s[2] = b THEN RemovePair(SubSeq(s, 3, Len(s)), a, b)
    ELSE <<s[1]>> \o RemovePair(Tail(s), a, b)

(***************************************************************************)
(* float(), str(float) and str(int): the decimal literals                  *)
(* [sign] digits [. digits] and the special values inf, infinity and nan;  *)
(* literals with an exponent or with underscores are not among the inputs  *)
(***************************************************************************)
NotANumber == [ok |-> FALSE, kind |-> "none", neg |-> FALSE, ip |-> <<>>, fp |-> <<>>]

S_inf == <<"i", "n", "f">>

S_infinity == <<"i", "n", "f", "i", "n", "i", "t", "y">>

\* float("inf"), float("-Infinity"), float("NaN"): the special values, in any case
SpecialKind(lowered) ==
    IF lowered \in {S_inf, S_infinity} THEN "inf"
    ELSE IF lowered = <<"n", "a", "n">> THEN "nan"
    ELSE "none"

Special(neg, kind) == [ok |-> TRUE, kind |-> kind, neg |-> neg, ip |-> <<>>, fp |-> <<>>]

AllDigits(s) == \A i \in 1..Len(s) : IsDigit(s[i])

\* the literal without its sign
Unsigned(t) == IF Len(t) > 0 /\ t[1] \in {"-", "+"} THEN Tail(t) ELSE t

\* a number of integer digits ip and fraction digits fp, when they are digits
MakeNumber(neg, ip, fp) ==
    IF AllDigits(ip) /\ AllDigits(fp) /\ Len(ip) + Len(fp) > 0
    THEN [ok |-> TRUE, kind |-> "finite", neg |-> neg, ip |-> ip, fp |-> fp]
    ELSE NotANumber

ParseDecimal(neg, body) == MakeNumber(neg, BeforeFirst(body, "."), AfterFirst(body, "."))

SpecialOrDecimal(neg, body, kind) ==
    IF kind = "none" THEN ParseDecimal(neg, body) ELSE Special(neg, kind)

ParseUnsigned(neg, body) == SpecialOrDecimal(neg, body, SpecialKind(ToLower(body)))

ParseStripped(t) == ParseUnsigned(Len(t) > 0 /\ t[1] = "-", Unsigned(t))

\* float(s): the sign, the integer digits and the fraction digits, or a ValueError
ParseFloat(s) == ParseStripped(Strip(s))

RECURSIVE StripLeadingZeros(_)
StripLeadingZeros(s) ==
    IF Len(s) > 0 /\ s[1] = "0" THEN StripLeadingZeros(Tail(s)) ELSE s

RECURSIVE StripTrailingZeros(_)
StripTrailingZeros(s) ==
    IF Len(s) > 0 /\ s[Len(s)] = "0" THEN StripTrailingZeros(SubSeq(s, 1, Len(s) - 1)) ELSE s

\* num == int(num)
IsIntegral(n) == StripTrailingZeros(n.fp) = <<>>

OrZero(d) == IF d = <<>> THEN <<"0">> ELSE d

IntDigits(n) == OrZero(StripLeadingZeros(n.ip))

Signed(neg, d) == IF neg THEN <<"-">> \o d ELSE d

IntStrOf(neg, d) == Signed(neg /\ d # <<"0">>, d)

\* str(int(num))
IntStr(n) == IntStrOf(n.neg, IntDigits(n))

\* str(num) for a finite float: the shortest decimal, "3.0" for an integral value
DecimalStr(n) == Signed(n.neg, IntDigits(n) \o <<".">> \o OrZero(StripTrailingZeros(n.fp)))

\* str(num): "inf", "-inf", "nan", or the decimal
FloatStr(n) ==
    IF n.kind = "inf" THEN Signed(n.neg, S_inf)
    ELSE IF n.kind = "nan" THEN <<"n", "a", "n">>
    ELSE DecimalStr(n)

(***************************************************************************)
(* normalize_value                                                         *)
(***************************************************************************)
Sentinels == { <<"n", "a", "n">>, <<"n", "a", "t">>, <<"n", "o", "n", "e">>,
               <<"n", "u", "l", "l">> }

\* lines 349-357: fractional seconds, "+HH:MM" and a trailing "Z" are dropped
DropFraction(s) == BeforeFirst(s, ".")

DropOffset(s) == IF Contains(s, "+") THEN Strip(BeforeFirst(s, "+")) ELSE s

DropZulu(s) == IF EndsWith(s, "Z") THEN Strip(SubSeq(s, 1, Len(s) - 1)) ELSE s

NormalizeTime(s) == DropZulu(DropOffset(DropFraction(s)))

\* int(float("inf")) raises OverflowError, which line 368 does not catch: the
\* exception leaves normalize_value
OverflowError == <<"OverflowError">>

\* lines 360-371: a number n parsed from s is rendered without trailing zeros;
\* int(nan) raises the ValueError of line 368 and s is returned as it is
RenderNumber(n, s) ==
    IF ~n.ok \/ n.kind = "nan" THEN s
    ELSE IF n.kind = "inf" THEN OverflowError
    ELSE IF IsIntegral(n) THEN IntStr(n)
    ELSE DecimalStr(n)

NormalizeNumber(s) == RenderNumber(ParseFloat(s), s)

\* lines 344-371, for the stripped text
NormalizeStripped(value_str) ==
    IF ToLower(value_str) \in Sentinels THEN <<>>
    ELSE NormalizeNumber(IF Contains(value_str, ":") /\ Len(value_str) > 5
                         THEN NormalizeTime(value_str)
                         ELSE value_str)

normalize_value(value) ==
    IF value = <<>> THEN <<>> ELSE NormalizeStripped(Strip(value))

(***************************************************************************)
(* Records: a dict is a function from the field names it holds to text     *)
(***************************************************************************)
\* dict.get(field, default)
Get(record, field, default) == IF field \in DOMAIN record THEN record[field] ELSE default

EmptyRecord == [f \in {} |-> <<>>]

S_nan == <<"n", "a", "n">>

S_NaT == <<"N", "a", "T">>

S_None == <<"N", "o", "n", "e">>

S_false == <<"f", "a", "l", "s", "e">>

\* lines 254 and 328: {k: v for k, v in record.items() if v and v != 'nan' and v != 'NaT'}
FilterEmpty(full) ==
    LET keep == {f \in DOMAIN full : full[f] # <<>> /\ full[f] # S_nan /\ full[f] # S_NaT}
    IN  [f \in keep |-> full[f]]

\* "a|b|c": the fields joined with the delimiter
RECURSIVE JoinBar(_)
JoinBar(parts) ==
    IF Len(parts) = 0 THEN <<>>
    ELSE IF Len(parts) = 1 THEN parts[1]
    ELSE parts[1] \o <<"|">> \o JoinBar(Tail(parts))

(***************************************************************************)
(* Sheets: a DataFrame is its column set and its rows, a row a function    *)
(* from the columns to the text of the cell (str(cell))                    *)
(***************************************************************************)
AllColumns == {"Date", "Timestamp", "Location", "Value", "Status"}

\* row.get(column, '')
RowGet(row, column) == IF column \in DOMAIN row THEN row[column] ELSE <<>>

\* df.empty
IsEmptyFrame(df) == df.rows = <<>>

NaT == [ok |-> FALSE, date |-> <<>>, hour |-> -1, minute |-> -1]

TwoDigits(s, i) == 10 * DigitVal(s[i]) + DigitVal(s[i + 1])

\* pd.to_datetime(cell, errors='coerce') on "YYYY-MM-DD HH:MM" or "YYYY-MM-DD HH:MM:SS";
\* anything else (nan, free text) is NaT
ParseTimestamp(s) ==
    LET shape == /\ Len(s) \in {16, 19}
                 /\ \A i \in {1, 2, 3, 4, 6, 7, 9, 10, 12, 13, 15, 16} : IsDigit(s[i])
                 /\ s[5] = "-" /\ s[8] = "-" /\ s[11] = " " /\ s[14] = ":"
                 /\ Len(s) = 19 => (s[17] = ":" /\ IsDigit(s[18]) /\ IsDigit(s[19]))
    IN  IF /\ shape
           /\ TwoDigits(s, 6) \in 1..12 /\ TwoDigits(s, 9) \in 1..31
           /\ TwoDigits(s, 12) <= 23 /\ TwoDigits(s, 15) <= 59
           /\ Len(s) = 19 => TwoDigits(s, 18) <= 59
        THEN [ok |-> TRUE, date |-> SubSeq(s, 1, 10),
              hour |-> TwoDigits(s, 12), minute |-> TwoDigits(s, 15)]
        ELSE NaT

(***************************************************************************)
(* filter_sensor_data_by_hour                                              *)
(***************************************************************************)
NoonHour == 12

EveningHour == 20

\* a sampler that takes the rows at or after the hour
RowsFromHour(rows, hour) ==
    SelectSeq(rows, LAMBDA r : ParseTimestamp(RowGet(r, "Timestamp")).hour >= hour)

\* df[df['_hour'] == hour]
RowsAtHour(rows, hour) ==
    SelectSeq(rows, LAMBDA r : ParseTimestamp(RowGet(r, "Timestamp")).hour = hour)

\* a sampler that keeps every row of the selection
EveryRow(rows) == rows

\* rows.iloc[0] when the selection is not empty
FirstRow(rows) == IF rows = <<>> THEN <<>> ELSE <<rows[1]>>

\* lines 136-137: the rows whose Timestamp parses
ValidRows(rows) == SelectSeq(rows, LAMBDA r : ParseTimestamp(RowGet(r, "Timestamp")).ok)

\* lines 147-166: the selection for one target hour
SelectFor(valid, hour) == FirstRow(RowsAtHour(valid, hour))

\* a sampler that puts the evening selection first
EveningFirst(valid) ==
    IF valid = <<>> THEN <<>>
    ELSE SelectFor(valid, EveningHour) \o SelectFor(valid, NoonHour)

\* lines 139-176, for the rows whose Timestamp parses
SelectBoth(valid) ==
    IF valid = <<>> THEN <<>>
    ELSE SelectFor(valid, NoonHour) \o SelectFor(valid, EveningHour)

\* lines 135-176, for a frame with a Timestamp column
FilterByHour(rows) == SelectBoth(ValidRows(rows))

\* a sampler that does not look for the Timestamp column
FilterWithoutColumnCheck(df) ==
    IF IsEmptyFrame(df) THEN df
    ELSE [columns |-> df.columns, rows |-> FilterByHour(df.rows)]

filter_sensor_data_by_hour(df) ==
    IF IsEmptyFrame(df) THEN df
    ELSE IF "Timestamp" \notin df.columns THEN df
    ELSE [columns |-> df.columns, rows |-> FilterByHour(df.rows)]

(***************************************************************************)
(* get_sensor_types and get_sensor_type_id_for_sheet                       *)
(* The cache is a dict in insertion order: a sequence of entries with      *)
(* distinct type_name                                                      *)
(***************************************************************************)
DictHas(dict, key) == \E i \in 1..Len(dict) : dict[i].type_name = key

DictGet(dict, key) == dict[CHOOSE i \in 1..Len(dict) : dict[i].type_name = key]

\* dict[key] = entry: a new key is appended, an old key keeps its place
DictPut(dict, entry) ==
    IF DictHas(dict, entry.type_name)
    THEN [i \in 1..Len(dict) |-> IF dict[i].type_name = entry.type_name THEN entry ELSE dict[i]]
    ELSE Append(dict, entry)

\* lines 84-99: the entries with a type_name, keyed by it
RECURSIVE BuildSensorTypes(_, _)
BuildSensorTypes(result, dict) ==
    IF result = <<>> THEN dict
    ELSE BuildSensorTypes(Tail(result),
             IF result[1].type_name # <<>> THEN DictPut(dict, result[1]) ELSE dict)

S_mmwave == <<"m", "m", "w", "a", "v", "e">>

DefaultMmWave == <<"S", "E", "N", "S", "O", "R", " ", "5">>

DefaultSensor == <<"S", "E", "N", "S", "O", "R", " ", "1">>

AlertSensor == <<"A", "L", "E", "R", "T", " ", "M", "O", "N", "I", "T", "O", "R", " ",
                 "S", "E", "N", "S", "O", "R", " ", "1", ",", "3", ",", "4">>

\* the first entry, in dict order, whose lower-cased type_name is `lowered`
FirstLowerMatch(dict, lowered) ==
    LET hits == {i \in 1..Len(dict) : ToLower(dict[i].type_name) = lowered}
    IN  IF hits = {} THEN 0 ELSE CHOOSE i \in hits : \A j \in hits : i <= j

\* the sensor_type_id of entry `hit`, or the default when nothing matched (hit = 0)
IdOrDefault(sensor_types, hit, default) ==
    IF hit # 0 THEN sensor_types[hit].sensor_type_id ELSE default

\* a resolution that tries the exact name before the mmwave rule
ExactNameFirst(sheet_name_normalized, sheet_name_lower, sensor_types) ==
    IF DictHas(sensor_types, sheet_name_normalized)
    THEN DictGet(sensor_types, sheet_name_normalized).sensor_type_id
    ELSE IF HasSubstring(sheet_name_lower, S_mmwave)
    THEN IdOrDefault(sensor_types, FirstLowerMatch(sensor_types, S_mmwave), DefaultMmWave)
    ELSE IdOrDefault(sensor_types, FirstLowerMatch(sensor_types, sheet_name_lower),
                     DefaultSensor)

\* lines 190-218, for the stripped name and its lower case
ResolveSensorType(sheet_name_normalized, sheet_name_lower, sensor_types) ==
    IF HasSubstring(sheet_name_lower, S_mmwave)
    THEN IdOrDefault(sensor_types, FirstLowerMatch(sensor_types, S_mmwave), DefaultMmWave)
    ELSE IF DictHas(sensor_types, sheet_name_normalized)
    THEN DictGet(sensor_types, sheet_name_normalized).sensor_type_id
    ELSE IdOrDefault(sensor_types, FirstLowerMatch(sensor_types, sheet_name_lower),
                     DefaultSensor)

get_sensor_type_id_for_sheet(sheet_name, sensor_types) ==
    ResolveSensorType(Strip(sheet_name), ToLower(Strip(sheet_name)), sensor_types)

(***************************************************************************)
(* transform_alert_data and transform_sensor_data                          *)
(***************************************************************************)
\* lines 244-254
AlertRecord(row) ==
    FilterEmpty([f \in {"sensor_type_id", "alert_date", "alert_time", "location",
                        "severity", "message"} |->
        CASE f = "sensor_type_id" -> AlertSensor
          [] f = "alert_date" -> RowGet(row, "Date")
          [] f = "alert_time" -> RowGet(row, "Timestamp")
          [] f = "location" -> RowGet(row, "Location")
          [] f = "severity" -> RowGet(row, "Value")
          [] f = "message" -> RowGet(row, "Status")])

\* line 256 and line 330: if record and len(record) > 2
Retained(record) == Cardinality(DOMAIN record) > 2

transform_alert_data(df) ==
    SelectSeq([i \in 1..Len(df.rows) |-> AlertRecord(df.rows[i])], Retained)

\* line 297: the value looks like a time or a date
LooksLikeDateTime(value_str) ==
    Contains(value_str, ":") \/ (Len(value_str) >= 8 /\ Count(value_str, "-") >= 2)

\* line 304: the unit suffixes are removed
CleanValue(value_str) ==
    Strip(RemoveChar(RemovePair(RemovePair(RemoveChar(value_str, "%"), "deg", "C"),
                                "deg", "F"), "deg"))

\* lines 302-309: a value that parses is numeric, any other is text
NumericOrText(n, value_str) ==
    IF n.ok
    THEN [numeric_value |-> FloatStr(n), text_value |-> <<>>]
    ELSE [numeric_value |-> <<>>, text_value |-> value_str]

\* lines 294-309, for the stripped text of the cell
KindOfStripped(value_str) ==
    IF value_str \in {S_nan, S_NaT, <<>>, S_None}
    THEN [numeric_value |-> <<>>, text_value |-> <<>>]
    ELSE IF LooksLikeDateTime(value_str)
    THEN [numeric_value |-> <<>>, text_value |-> value_str]
    ELSE NumericOrText(ParseFloat(CleanValue(value_str)), value_str)

\* lines 286-309: [numeric_value, text_value]
ValueKind(value) == KindOfStripped(Strip(value))

\* record[field] = value
With(record, field, value) ==
    [f \in DOMAIN record \cup {field} |-> IF f = field THEN value ELSE record[f]]

\* lines 312-319
SensorBase(row, sensor_type_id) ==
    [f \in {"sensor_type_id", "record_date", "record_time", "location", "status",
            "is_active"} |->
        CASE f = "sensor_type_id" -> sensor_type_id
          [] f = "record_date" -> RowGet(row, "Date")
          [] f = "record_time" -> RowGet(row, "Timestamp")
          [] f = "location" -> RowGet(row, "Location")
          [] f = "status" -> RowGet(row, "Status")
          [] f = "is_active" -> S_false]

\* a mapping that stores the number and the cell's text side by side
WithBothValues(record, kind) ==
    With(With(record, "numeric_value", kind.numeric_value), "text_value", <<"x">>)

\* lines 321-325: the numeric value is preferred
WithValue(record, kind) ==
    IF kind.numeric_value # <<>> /\ kind.numeric_value # S_nan
    THEN With(record, "numeric_value", kind.numeric_value)
    ELSE IF kind.text_value # <<>> /\ kind.text_value # S_nan
    THEN With(record, "text_value", kind.text_value)
    ELSE record

\* lines 312-328
SensorRecord(row, sensor_type_id) ==
    FilterEmpty(WithValue(SensorBase(row, sensor_type_id), ValueKind(RowGet(row, "Value"))))

transform_sensor_data(df, sheet_name, sensor_types) ==
    LET sensor_type_id == get_sensor_type_id_for_sheet(sheet_name, sensor_types)
    IN  SelectSeq([i \in 1..Len(df.rows) |-> SensorRecord(df.rows[i], sensor_type_id)],
                  Retained)

(***************************************************************************)
(* Identity keys                                                           *)
(***************************************************************************)
AlertTable == "x_1855398_elderl_0_iot_alert_event"

SensorTable == "x_1855398_elderl_0_iot_sensor_record"

Field(name, default) == [name |-> name, default |-> default]

\* lines 469-474 and 478-485: the fields of the key of a candidate, with their defaults
CandidateKeyFields(table) ==
    IF table = AlertTable
    THEN << Field("alert_date", <<>>), Field("alert_time", <<>>), Field("location", <<>>),
            Field("severity", <<>>), Field("message", <<>>), Field("sensor_type_id", <<>>) >>
    ELSE << Field("record_date", <<>>), Field("record_time", <<>>), Field("location", <<>>),
            Field("sensor_type_id", <<>>), Field("status", <<>>),
            Field("numeric_value", <<>>), Field("text_value", <<>>),
            Field("is_active", S_false) >>

\* lines 393-398 and 402-409: the fields of the key of a remote record
ExistingKeyFields(table) ==
    IF table = AlertTable
    THEN << Field("alert_date", <<>>), Field("alert_time", <<>>), Field("location", <<>>),
            Field("severity", <<>>), Field("message", <<>>), Field("sensor_type_id", <<>>) >>
    ELSE << Field("record_date", <<>>), Field("record_time", <<>>), Field("location", <<>>),
            Field("sensor_type_id", <<>>), Field("status", <<>>),
            Field("numeric_value", <<>>), Field("text_value", <<>>),
            Field("is_active", <<>>) >>

\* the normalized fields of the key, in their order
KeyParts(fields, record) ==
    [i \in 1..Len(fields) |-> normalize_value(Get(record, fields[i].name, fields[i].default))]

\* the normalized fields, joined: f"{date}|{time_val}|..."
KeyOf(fields, record) == JoinBar(KeyParts(fields, record))

\* a normalize_value of lines 469-485 raises, and sync_records with it
AnyRaises(parts) == \E i \in 1..Len(parts) : parts[i] = OverflowError

KeyRaises(table, record) == AnyRaises(KeyParts(CandidateKeyFields(table), record))

\* lines 468-486: the key sync_records builds from a candidate
CandidateKey(table, record) == KeyOf(CandidateKeyFields(table), record)

\* lines 392-411: the key get_existing_records builds from a remote record
ExistingKey(table, record) == KeyOf(ExistingKeyFields(table), record)

\* lines 469-470 and 478-479: the normalized date and time of a candidate
CandidateDate(table, record) ==
    normalize_value(Get(record, IF table = AlertTable THEN "alert_date" ELSE "record_date", <<>>))

CandidateTime(table, record) ==
    normalize_value(Get(record, IF table = AlertTable THEN "alert_time" ELSE "record_time", <<>>))

\* a check that looks at the time alone
TimeMissing(table, record) == CandidateTime(table, record) = <<>>

\* line 488: if not date or not time_val
IdentityMissing(table, record) ==
    CandidateDate(table, record) = <<>> \/ CandidateTime(table, record) = <<>>

(***************************************************************************)
(* The remote store: two record tables and the sensor-type lookup table.   *)
(* A created record is stored as posted, with a sys_id of the store's own. *)
(***************************************************************************)
SensorTypeTable == "x_1855398_elderl_0_sensor_type"

Tables == {AlertTable, SensorTable}

RECURSIVE NatStr(_)
NatStr(n) == IF n < 10 THEN <<Digits[n + 1]>> ELSE NatStr(n \div 10) \o <<Digits[(n % 10) + 1]>>

\* the record the store keeps for a create request: the posted fields and a sys_id
StoredEcho(data, n) ==
    [f \in DOMAIN data \cup {"sys_id"} |-> IF f = "sys_id" THEN NatStr(n) ELSE data[f]]

\* a request that overwrites the newest record of the table
ReplaceNewest(rows, data, ok) ==
    IF ~ok THEN rows
    ELSE IF rows = <<>> THEN <<StoredEcho(data, 1)>>
    ELSE [rows EXCEPT ![Len(rows)] = StoredEcho(data, Len(rows))]

\* lines 429-446: the table after the POST of create_record, which adds one record
\* when it succeeds and nothing when it fails
create_record(rows, data, ok) ==
    IF ok THEN Append(rows, StoredEcho(data, Len(rows) + 1)) ELSE rows

\* the rows of the sensor-type table (elderly_id, which nothing reads, is left out)
SensorTypeRows ==
    << [type_name |-> <<"P", "I", "R">>,
        sensor_type_id |-> <<"S", "E", "N", "S", "O", "R", " ", "2">>] >>

EmptyIndex == [k \in {} |-> <<>>]

\* lines 389-417: existing[key] = record['sys_id'], a later record replacing an earlier
LastWithKey(keys, k) ==
    CHOOSE i \in 1..Len(keys) : keys[i] = k /\ \A j \in 1..Len(keys) : keys[j] = k => j <= i

IndexOf(keys, result) ==
    [k \in {keys[i] : i \in 1..Len(keys)} |-> result[LastWithKey(keys, k)]["sys_id"]]

\* a fetch that never finds a record
NoIndex(tbl, result) == EmptyIndex

BuildIndex(tbl, result) ==
    IndexOf([i \in 1..Len(result) |-> ExistingKey(tbl, result[i])], result)

\* a fetch whose failure does not empty the index
IndexAnyway(ok, tbl, result) == BuildIndex(tbl, result)

\* lines 379-422: the index of a successful fetch, the empty index of a failed one
get_existing_records(ok, tbl, result) ==
    IF ok THEN BuildIndex(tbl, result) ELSE EmptyIndex

\* a lookup that keeps the sensor types of a failed request
TypesAnyway(ok, result) == BuildSensorTypes(result, <<>>)

\* lines 68-104: the cache of a successful fetch, the empty cache of a failed one
get_sensor_types(ok, result) ==
    IF ok THEN BuildSensorTypes(result, <<>>) ELSE <<>>

(***************************************************************************)
(* main: classification of a sheet and its candidate records               *)
(***************************************************************************)
S_ALERTS == <<"A", "L", "E", "R", "T", "S">>

\* line 553: sheet_name.upper() == 'ALERTS'
IsAlertSheet(sheet_name) == ToUpper(sheet_name) = S_ALERTS

\* lines 555-571: the table a sheet is written to
SheetTable(sheet) == IF IsAlertSheet(sheet.name) THEN AlertTable ELSE SensorTable

\* a main that skips no sheet
NeverSkipped(sheet) == FALSE

\* lines 548-550 and 564-568: the sheet is skipped without calling sync_records
SheetSkipped(sheet) ==
    \/ IsEmptyFrame(sheet.df)
    \/ ~IsAlertSheet(sheet.name) /\ IsEmptyFrame(filter_sensor_data_by_hour(sheet.df))

\* lines 559 and 570: the candidate records of a sheet
SheetRecords(sheet, types) ==
    IF IsAlertSheet(sheet.name)
    THEN transform_alert_data(sheet.df)
    ELSE transform_sensor_data(filter_sensor_data_by_hour(sheet.df), sheet.name, types)

\* a request that stays in flight after its answer
StillPending(requests, request) == requests

\* requests.get and requests.post return only when the request is answered
Answered(requests, request) == requests \ {request}

\* lines 588-590: the exit code after the summary
ExitCode(t) == IF t.failed > 0 /\ t.created = 0 THEN 1 ELSE 0

\* a sync that does not count a failed create
CountCreated(c, ok) == IF ok THEN [c EXCEPT !.created = @ + 1] ELSE c

\* lines 499-502: created += 1 when create_record returns True, else failed += 1
CountCreate(c, ok) ==
    IF ok THEN [c EXCEPT !.created = @ + 1] ELSE [c EXCEPT !.failed = @ + 1]

\* a loop that stays on a record whose create failed
RetryRecord(ok, i) == IF ok THEN i + 1 ELSE i

\* line 466: the for loop moves to the next record whatever became of this one
NextRecord(ok, i) == i + 1

(***************************************************************************)
(* Source data: the workbooks the runs read                                *)
(***************************************************************************)
MaxRows == 2

MaxRuns == 2

MaxFaults == 1

Day1 == <<"2", "0", "2", "4", "-", "0", "5", "-", "0", "1">>

Day2 == <<"2", "0", "2", "4", "-", "0", "5", "-", "0", "2">>

At(day, h1, h2, m1, m2) == day \o <<" ", h1, h2, ":", m1, m2>>

MakeRow(date, timestamp, value) ==
    [c \in AllColumns |->
        CASE c = "Date" -> date
          [] c = "Timestamp" -> timestamp
          [] c = "Location" -> <<"H", "a", "l", "l">>
          [] c = "Value" -> value
          [] c = "Status" -> <<"O", "K">>]

\* a noon row, an evening row, a noon row without a date, and an evening row whose
\* value is the text "inf"
RowPool ==
    << MakeRow(Day1, At(Day1, "1", "2", "0", "3"), <<"3">>),
       MakeRow(Day1, At(Day1, "2", "0", "1", "0"), <<"2", "3", ".", "5", "%">>),
       MakeRow(S_nan, At(Day1, "1", "2", "3", "0"), <<"3">>),
       MakeRow(Day1, At(Day1, "2", "0", "3", "0"), S_inf) >>

RECURSIVE SeqsUpTo(_, _)
SeqsUpTo(S, n) ==
    IF n = 0 THEN {<<>>}
    ELSE LET shorter == SeqsUpTo(S, n - 1)
         IN  shorter \cup {Append(q, e) : q \in {t \in shorter : Len(t) = n - 1}, e \in S}

Frame(indices) == [columns |-> AllColumns, rows |-> [i \in 1..Len(indices) |-> RowPool[indices[i]]]]

SheetNames == << S_ALERTS, <<"P", "I", "R">> >>

\* every workbook with these sheets, each of at most MaxRows rows of the pool
Workbooks ==
    { [s \in 1..Len(SheetNames) |-> [name |-> SheetNames[s], df |-> Frame(pick[s])]] :
        pick \in [1..Len(SheetNames) -> SeqsUpTo(1..Len(RowPool), MaxRows)] }

(***************************************************************************)
(* The process: main(), run after run against the same remote store        *)
(***************************************************************************)
VARIABLES
    book,          \* the workbook every run reads
    store,         \* the remote record tables
    run,           \* the number of this run
    pc,            \* where main() is
    sensor_types,  \* sync.sensor_types
    sheet_i,       \* the sheet of the for loop of line 543
    table,         \* sync_records: table
    records,       \* sync_records: records
    existing,      \* sync_records: existing
    rec_i,         \* the record of the for loop of line 466
    cnt,           \* sync_records: created, skipped, failed
    total,         \* main: total_created, total_skipped, total_failed
    exit_code,     \* the exit code of the run, once pc = "done"
    inflight,      \* the remote requests awaiting their response
    faults,        \* the remote requests that have failed so far
    trace,         \* history: what became of every request and candidate
    hist,          \* history: the outcome of every finished run
    sampled,       \* the rows filter_sensor_data_by_hour returned (the sampler alone)
    arg,           \* the argument of a function applied alone
    out            \* its result

vars == <<book, store, run, pc, sensor_types, sheet_i, table, records, existing, rec_i,
          cnt, total, exit_code, inflight, faults, trace, hist, sampled, arg, out>>

NoCount == [created |-> 0, skipped |-> 0, failed |-> 0]

Event(ev, i) == [run |-> run, sheet |-> sheet_i, i |-> i, ev |-> ev]

Finished(loaded, code) ==
    [loaded |-> loaded, types |-> sensor_types, total |-> total, exit_code |-> code]

Init ==
    /\ book \in Workbooks
    /\ store = [t \in Tables |-> <<>>]
    /\ run = 1
    /\ pc = "start"
    /\ sensor_types = <<>>
    /\ sheet_i = 0
    /\ table = AlertTable
    /\ records = <<>>
    /\ existing = EmptyIndex
    /\ rec_i = 0
    /\ cnt = NoCount
    /\ total = NoCount
    /\ exit_code = 0
    /\ inflight = {}
    /\ faults = 0
    /\ trace = <<>>
    /\ hist = <<>>
    /\ sampled = <<>>
    /\ arg = <<>>
    /\ out = <<>>

\* lines 47-53 and 518-520, 594-598: without credentials the run ends with exit code 1
Construct ==
    /\ pc = "start"
    /\ \E credentials \in BOOLEAN :
          IF credentials
          THEN /\ pc' = "get_sensor_types"
               /\ UNCHANGED <<exit_code, hist>>
          ELSE /\ pc' = "done"
               /\ exit_code' = 1
               /\ hist' = Append(hist, Finished(FALSE, 1))
    /\ UNCHANGED <<arg, out, sampled, book, store, run, sensor_types, sheet_i, table, records, existing, rec_i,
                   cnt, total, inflight, faults, trace>>

\* lines 70-81: the lookup request is sent
GetSensorTypesRequest ==
    /\ pc = "get_sensor_types"
    /\ inflight' = inflight \cup {[op |-> "list", table |-> SensorTypeTable]}
    /\ pc' = "wait_sensor_types"
    /\ UNCHANGED <<arg, out, sampled, book, store, run, sensor_types, sheet_i, table, records, existing, rec_i,
                   cnt, total, exit_code, faults, trace, hist>>

\* lines 82-104 and 523: the lookup response, or its failure
GetSensorTypesResponse ==
    /\ pc = "wait_sensor_types"
    /\ \E ok \in BOOLEAN :
          /\ ~ok => faults < MaxFaults
          /\ sensor_types' = get_sensor_types(ok, SensorTypeRows)
          /\ faults' = IF ok THEN faults ELSE faults + 1
          /\ trace' = Append(trace, Event(IF ok THEN "lookup_ok" ELSE "lookup_fail", 0))
    /\ inflight' = Answered(inflight, [op |-> "list", table |-> SensorTypeTable])
    /\ pc' = "read_sheets"
    /\ UNCHANGED <<arg, out, sampled, book, store, run, sheet_i, table, records, existing, rec_i, cnt, total,
                   exit_code, hist>>

\* lines 532-540: the sheets are read; a workbook without sheets ends the run
ReadAllSheets ==
    /\ pc = "read_sheets"
    /\ IF Len(book) = 0
       THEN /\ pc' = "done"
            /\ exit_code' = 0
            /\ hist' = Append(hist, Finished(TRUE, 0))
            /\ UNCHANGED <<total, sheet_i>>
       ELSE /\ pc' = "sheet"
            /\ total' = NoCount
            /\ sheet_i' = 1
            /\ UNCHANGED <<exit_code, hist>>
    /\ UNCHANGED <<arg, out, sampled, book, store, run, sensor_types, table, records, existing, rec_i, cnt,
                   inflight, faults, trace>>

\* lines 543-571 and 456-460: a sheet is skipped, or its candidates go to sync_records,
\* which returns at once without records and else sends the fetch-existing request
ProcessSheet ==
    /\ pc = "sheet"
    /\ sheet_i <= Len(book)
    /\ IF SheetSkipped(book[sheet_i])
       THEN /\ sheet_i' = sheet_i + 1
            /\ UNCHANGED <<pc, table, records, cnt, inflight>>
       ELSE /\ table' = SheetTable(book[sheet_i])
            /\ records' = SheetRecords(book[sheet_i], sensor_types)
            /\ cnt' = NoCount
            /\ IF records' = <<>>
               THEN pc' = "sync_return" /\ UNCHANGED inflight
               ELSE /\ pc' = "wait_existing"
                    /\ inflight' = inflight \cup {[op |-> "list", table |-> table']}
            /\ UNCHANGED sheet_i
    /\ UNCHANGED <<arg, out, sampled, book, store, run, sensor_types, existing, rec_i, total, exit_code,
                   faults, trace, hist>>

\* lines 387-422 and 460-464: the fetch-existing response, or its failure
GetExistingResponse ==
    /\ pc = "wait_existing"
    /\ \E ok \in BOOLEAN :
          /\ ~ok => faults < MaxFaults
          /\ existing' = get_existing_records(ok, table, store[table])
          /\ faults' = IF ok THEN faults ELSE faults + 1
          /\ trace' = Append(trace, Event(IF ok THEN "list_ok" ELSE "list_fail", 0))
    /\ inflight' = Answered(inflight, [op |-> "list", table |-> table])
    /\ cnt' = NoCount
    /\ rec_i' = 1
    /\ pc' = "record"
    /\ UNCHANGED <<arg, out, sampled, book, store, run, sensor_types, sheet_i, table, records, total,
                   exit_code, hist>>

\* lines 466-499: a candidate is rejected, skipped, or sent in a create request; an
\* exception of normalize_value leaves sync_records and ends the run at lines 594-598
ProcessRecord ==
    /\ pc = "record"
    /\ rec_i <= Len(records)
    /\ LET record == records[rec_i]
       IN  IF KeyRaises(table, record)
           THEN /\ trace' = Append(trace, Event("raise", rec_i))
                /\ pc' = "done"
                /\ exit_code' = 1
                /\ hist' = Append(hist, Finished(TRUE, 1))
                /\ UNCHANGED <<cnt, rec_i, inflight>>
           ELSE IF IdentityMissing(table, record)
           THEN /\ cnt' = [cnt EXCEPT !.failed = @ + 1]
                /\ trace' = Append(trace, Event("reject", rec_i))
                /\ rec_i' = rec_i + 1
                /\ UNCHANGED <<pc, inflight, exit_code, hist>>
           ELSE IF CandidateKey(table, record) \in DOMAIN existing
           THEN /\ cnt' = [cnt EXCEPT !.skipped = @ + 1]
                /\ trace' = Append(trace, Event("skip", rec_i))
                /\ rec_i' = rec_i + 1
                /\ UNCHANGED <<pc, inflight, exit_code, hist>>
           ELSE /\ inflight' = inflight \cup {[op |-> "create", table |-> table]}
                /\ pc' = "wait_create"
                /\ UNCHANGED <<cnt, trace, rec_i, exit_code, hist>>
    /\ UNCHANGED <<arg, out, sampled, book, store, run, sensor_types, sheet_i, table, records, existing, total,
                   faults>>

\* an index that learns the key of the record just created
IndexWithCreated(index, tbl, record, ok) ==
    IF ok
    THEN [k \in DOMAIN index \cup {CandidateKey(tbl, record)} |->
             IF k \in DOMAIN index THEN index[k] ELSE <<>>]
    ELSE index

\* lines 497-502: the loop never assigns to `existing`, created or not
IndexAfterCreate(index, tbl, record, ok) == index

\* lines 436-452 and 499-502: the create response, or its failure
CreateResponse ==
    /\ pc = "wait_create"
    /\ \E ok \in BOOLEAN :
          /\ ~ok => faults < MaxFaults
          /\ store' = [store EXCEPT ![table] = create_record(@, records[rec_i], ok)]
          /\ cnt' = CountCreate(cnt, ok)
          /\ faults' = IF ok THEN faults ELSE faults + 1
          /\ trace' = Append(trace, Event(IF ok THEN "create_ok" ELSE "create_fail", rec_i))
          /\ rec_i' = NextRecord(ok, rec_i)
          /\ existing' = IndexAfterCreate(existing, table, records[rec_i], ok)
    /\ inflight' = Answered(inflight, [op |-> "create", table |-> table])
    /\ pc' = "record"
    /\ UNCHANGED <<arg, out, sampled, book, run, sensor_types, sheet_i, table, records, total,
                   exit_code, hist>>

\* totals that are the counts of the last sheet
LastCounts(sum, c) == c

\* lines 573-575: total_created += created, total_skipped += skipped, total_failed += failed
AddCounts(sum, c) ==
    [created |-> sum.created + c.created,
     skipped |-> sum.skipped + c.skipped,
     failed  |-> sum.failed + c.failed]

\* lines 504-507 and 573-577: sync_records returns and main adds the counts up
SyncReturn ==
    /\ \/ pc = "sync_return"
       \/ pc = "record" /\ rec_i > Len(records)
    /\ total' = AddCounts(total, cnt)
    /\ sheet_i' = sheet_i + 1
    /\ pc' = "sheet"
    /\ UNCHANGED <<arg, out, sampled, book, store, run, sensor_types, table, records, existing, rec_i, cnt,
                   exit_code, inflight, faults, trace, hist>>

\* lines 579-592: the summary and the exit code
Summary ==
    /\ pc = "sheet"
    /\ sheet_i > Len(book)
    /\ exit_code' = ExitCode(total)
    /\ hist' = Append(hist, Finished(TRUE, exit_code'))
    /\ pc' = "done"
    /\ UNCHANGED <<arg, out, sampled, book, store, run, sensor_types, sheet_i, table, records, existing, rec_i,
                   cnt, total, inflight, faults, trace>>

\* the next invocation of the script, over the same workbook and remote store
NextRun ==
    /\ pc = "done"
    /\ run < MaxRuns
    /\ run' = run + 1
    /\ pc' = "start"
    /\ sensor_types' = <<>>
    /\ sheet_i' = 0
    /\ table' = AlertTable
    /\ records' = <<>>
    /\ existing' = EmptyIndex
    /\ rec_i' = 0
    /\ cnt' = NoCount
    /\ total' = NoCount
    /\ exit_code' = 0
    /\ UNCHANGED <<arg, out, sampled, book, store, inflight, faults, trace, hist>>

Next ==
    \/ Construct
    \/ GetSensorTypesRequest
    \/ GetSensorTypesResponse
    \/ ReadAllSheets
    \/ ProcessSheet
    \/ GetExistingResponse
    \/ ProcessRecord
    \/ CreateResponse
    \/ SyncReturn
    \/ Summary
    \/ NextRun

Spec == Init /\ [][Next]_vars

(***************************************************************************)
(* The sampler alone: filter_sensor_data_by_hour applied to a sheet        *)
(***************************************************************************)
MaxSampleRows == 4

\* 11:55, 12:03, 12:40, 13:05, 19:58 and 20:10 of one day, 12:20 and 20:30 of the
\* next, and a cell that is no timestamp
SampleStamps ==
    << At(Day1, "1", "1", "5", "5"), At(Day1, "1", "2", "0", "3"),
       At(Day1, "1", "2", "4", "0"), At(Day1, "1", "3", "0", "5"),
       At(Day1, "1", "9", "5", "8"), At(Day1, "2", "0", "1", "0"),
       At(Day2, "1", "2", "2", "0"), At(Day2, "2", "0", "3", "0"), S_nan >>

SampleFrame(columns, stamps) ==
    [columns |-> columns,
     rows |-> [i \in 1..Len(stamps) |->
                 [c \in columns |-> MakeRow(Day1, SampleStamps[stamps[i]], <<"3">>)[c]]]]

SampleBooks ==
    { << [name |-> SheetNames[2], df |-> SampleFrame(columns, stamps)] >> :
        columns \in {AllColumns, AllColumns \ {"Timestamp"}},
        stamps \in SeqsUpTo(1..Len(SampleStamps), MaxSampleRows) }

SamplerInit ==
    /\ book \in SampleBooks
    /\ store = [t \in Tables |-> <<>>]
    /\ run = 1
    /\ pc = "sample"
    /\ sensor_types = <<>>
    /\ sheet_i = 1
    /\ table = SensorTable
    /\ records = <<>>
    /\ existing = EmptyIndex
    /\ rec_i = 0
    /\ cnt = NoCount
    /\ total = NoCount
    /\ exit_code = 0
    /\ inflight = {}
    /\ faults = 0
    /\ trace = <<>>
    /\ hist = <<>>
    /\ sampled = <<>>
    /\ arg = <<>>
    /\ out = <<>>

\* line 564: filtered_df = sync.filter_sensor_data_by_hour(df)
Sample ==
    /\ pc = "sample"
    /\ sampled' = filter_sensor_data_by_hour(book[sheet_i].df).rows
    /\ pc' = "sampled"
    /\ UNCHANGED <<book, store, run, sensor_types, sheet_i, table, records, existing, rec_i,
                   cnt, total, exit_code, inflight, faults, trace, hist, arg, out>>

SamplerNext == Sample

SpecSampler == SamplerInit /\ [][SamplerNext]_vars

(***************************************************************************)
(* Reading the history                                                     *)
(***************************************************************************)
\* the sensor-type cache of run r
TypesOf(r) == IF r <= Len(hist) THEN hist[r].types ELSE sensor_types

\* the candidate list that sheet s hands to sync_records in run r
Cands(r, s) == IF SheetSkipped(book[s]) THEN <<>> ELSE SheetRecords(book[s], TypesOf(r))

\* the candidate an event is about
Cand(e) == Cands(e.run, e.sheet)[e.i]

TableOf(e) == SheetTable(book[e.sheet])

HasIdentity(tbl, record) ==
    CandidateDate(tbl, record) # <<>> /\ CandidateTime(tbl, record) # <<>>

\* the positions of the trace with an event of `kinds` about sheet s of run r
EventsOf(r, s, kinds) ==
    {k \in 1..Len(trace) : trace[k].run = r /\ trace[k].sheet = s /\ trace[k].ev \in kinds}

\* the positions of the trace with an event of `kinds` about candidate i
EventsAbout(r, s, i, kinds) == {k \in EventsOf(r, s, kinds) : trace[k].i = i}

RunEvents(r, kinds) == {k \in 1..Len(trace) : trace[k].run = r /\ trace[k].ev \in kinds}

Creates == {"create_ok", "create_fail"}

Outcomes == {"create_ok", "create_fail", "skip", "reject"}

\* run r has ended, and with its summary, not with an exception out of sync_records
Completed(r) == r <= Len(hist) /\ hist[r].loaded /\ RunEvents(r, {"raise"}) = {}

\* sync_records has returned for sheet s of run r
SheetDone(r, s) ==
    /\ r < run \/ (r = run /\ (s < sheet_i \/ pc = "done"))
    /\ \A k \in RunEvents(r, {"raise"}) : s < trace[k].sheet

\* sync_records is at work on sheet_i
InSync == pc \in {"record", "wait_create"}

RECURSIVE CountCands(_, _)
CountCands(r, s) == IF s = 0 THEN 0 ELSE Len(Cands(r, s)) + CountCands(r, s - 1)

Counts(c, k, f) == [created |-> c, skipped |-> k, failed |-> f]

(***************************************************************************)
(* C1  Idempotent re-run                                                   *)
(***************************************************************************)
\* runs 1 and 2 have returned from every sync_records, over the same candidates, every
\* fetch-existing and every create has succeeded, and every candidate has a date and a
\* time
RerunCase ==
    /\ Completed(1) /\ Completed(2)
    /\ hist[1].types = hist[2].types
    /\ RunEvents(1, {"list_fail", "create_fail"}) = {}
    /\ RunEvents(2, {"list_fail", "create_fail"}) = {}
    /\ \A s \in 1..Len(book) : \A i \in 1..Len(Cands(1, s)) :
          HasIdentity(SheetTable(book[s]), Cands(1, s)[i])

\* C1: from an empty store, with every remote call succeeding, the first run over N
\* candidates with date and time returns (N, 0, 0), the second run over the same
\* candidates returns (0, N, 0) and sends no create request.
C1_IdempotentRerun ==
    RerunCase =>
        /\ hist[1].total = Counts(CountCands(1, Len(book)), 0, 0)
        /\ hist[2].total = Counts(0, CountCands(1, Len(book)), 0)
        /\ RunEvents(2, Creates) = {}

C1_Witness == RerunCase /\ hist[2].total.skipped >= 3

(***************************************************************************)
(* C2  No duplication                                                      *)
(***************************************************************************)
\* C2: as long as every fetch-existing call has succeeded, no table of the remote
\* store holds two records with equal IdentityKey.
C2_NoDuplication ==
    (\A k \in 1..Len(trace) : trace[k].ev # "list_fail") =>
        \A t \in Tables : \A a, b \in 1..Len(store[t]) :
            ExistingKey(t, store[t][a]) = ExistingKey(t, store[t][b]) => a = b

(***************************************************************************)
(* C3  Fetch-existing degradation                                          *)
(***************************************************************************)
\* C3: after a failed fetch-existing for a sheet, no candidate of the sheet is
\* skipped, every candidate with date and time gets one create request and is counted
\* created when it succeeds, and the run goes on to the sheets that follow.
C3_FetchDegradation ==
    \A k \in 1..Len(trace) : trace[k].ev = "list_fail" =>
        /\ EventsOf(trace[k].run, trace[k].sheet, {"skip"}) = {}
        /\ SheetDone(trace[k].run, trace[k].sheet) =>
              \A i \in 1..Len(Cands(trace[k].run, trace[k].sheet)) :
                 HasIdentity(TableOf(trace[k]), Cands(trace[k].run, trace[k].sheet)[i])
                    => Cardinality(EventsAbout(trace[k].run, trace[k].sheet, i, Creates)) = 1
        /\ (trace[k].run = run /\ trace[k].sheet = sheet_i /\ InSync) =>
              /\ cnt.skipped = 0
              /\ cnt.created = Cardinality(EventsOf(run, sheet_i, {"create_ok"}))
        /\ (trace[k].run <= Len(hist) /\ RunEvents(trace[k].run, {"raise"}) = {}) =>
              /\ hist[trace[k].run].loaded
              /\ hist[trace[k].run].total.created
                    = Cardinality(RunEvents(trace[k].run, {"create_ok"}))
              /\ \A s \in (trace[k].sheet + 1)..Len(book) :
                    Cands(trace[k].run, s) # <<>>
                       => EventsOf(trace[k].run, s, {"list_ok", "list_fail"}) # {}

\* the fetch for the first sheet of the second run failed, records the first run had
\* created were created again, and the second sheet was synced after it
C3_Witness ==
    /\ Len(hist) >= 2
    /\ EventsOf(2, 1, {"list_fail"}) # {}
    /\ EventsOf(1, 1, {"create_ok"}) # {}
    /\ Cardinality(EventsOf(2, 1, {"create_ok"})) >= 2
    /\ EventsOf(2, 2, {"list_ok"}) # {}

(***************************************************************************)
(* C4  Process exit contract                                               *)
(***************************************************************************)
\* C4: a run that got past configuration and sheet loading, and to its summary, exits
\* non-zero exactly when nothing was created, nothing was skipped and something failed.
C4_ExitContract ==
    (pc = "done" /\ Completed(run)) =>
        (exit_code # 0 <=> (total.created = 0 /\ total.skipped = 0 /\ total.failed > 0))

(***************************************************************************)
(* C5  Identity rejection                                                  *)
(***************************************************************************)
\* C5: a candidate whose normalized date or time is empty is counted failed exactly
\* once, gets no create request, is never counted created or skipped, and the
\* candidates after it are processed.
C5_IdentityRejection ==
    /\ \A k \in 1..Len(trace) : trace[k].ev \in Outcomes =>
          (trace[k].ev = "reject" <=> ~HasIdentity(TableOf(trace[k]), Cand(trace[k])))
    /\ pc = "wait_create" => HasIdentity(table, records[rec_i])
    /\ InSync =>
          /\ \A i \in 1..(rec_i - 1) :
                Cardinality(EventsAbout(run, sheet_i, i, Outcomes)) = 1
          /\ cnt.failed = Cardinality(EventsOf(run, sheet_i, {"reject", "create_fail"}))
          /\ cnt.created = Cardinality(EventsOf(run, sheet_i, {"create_ok"}))
          /\ cnt.skipped = Cardinality(EventsOf(run, sheet_i, {"skip"}))

\* a candidate was rejected and the candidate after it was created
C5_Witness ==
    \E k \in 1..Len(trace) :
        /\ trace[k].ev = "reject"
        /\ EventsAbout(trace[k].run, trace[k].sheet, trace[k].i + 1, {"create_ok"}) # {}

(***************************************************************************)
(* The keys of the candidates the transforms produce                       *)
(***************************************************************************)
\* a create has just succeeded: the candidate is records[rec_i - 1] and the store's
\* echo of it is the last record of the table
JustCreated ==
    /\ pc = "record"
    /\ Len(trace) > 0
    /\ trace[Len(trace)].ev = "create_ok"

\* transform_sensor_data sets is_active on every record (line 318), so for the
\* candidates main hands to sync_records the two keys are equal
ProducedKeysAgree ==
    JustCreated =>
        CandidateKey(table, records[trace[Len(trace)].i])
           = ExistingKey(table, store[table][Len(store[table])])

(***************************************************************************)
(* C9  No retry within a run, re-attempt on the next                       *)
(***************************************************************************)
\* event k is a failed create, and the next run has synced the same sheet with the
\* same candidates after a successful fetch-existing
FailedThenRerun(k) ==
    /\ trace[k].ev = "create_fail"
    /\ trace[k].run < run
    /\ SheetDone(trace[k].run + 1, trace[k].sheet)
    /\ EventsOf(trace[k].run + 1, trace[k].sheet, {"list_ok"}) # {}
    /\ Cands(trace[k].run + 1, trace[k].sheet) = Cands(trace[k].run, trace[k].sheet)

\* a create of a candidate with the key of event k's candidate, in the same table,
\* succeeded before the next run fetched the existing records of the sheet
TwinCreated(k) ==
    \E m \in 1..Len(trace) :
        /\ trace[m].ev = "create_ok"
        /\ \/ trace[m].run <= trace[k].run
           \/ trace[m].run = trace[k].run + 1 /\ trace[m].sheet < trace[k].sheet
        /\ TableOf(trace[m]) = TableOf(trace[k])
        /\ CandidateKey(TableOf(trace[m]), Cand(trace[m]))
              = CandidateKey(TableOf(trace[k]), Cand(trace[k]))

OneCreateEach ==
    \A k, m \in 1..Len(trace) :
        (/\ trace[k].ev \in Creates /\ trace[m].ev \in Creates
         /\ trace[k].run = trace[m].run /\ trace[k].sheet = trace[m].sheet
         /\ trace[k].i = trace[m].i) => k = m

\* C9 as claimed: at most one create request per candidate and run, and a candidate
\* whose create failed gets a create request again in the next run.
C9_RetryNextRun ==
    /\ OneCreateEach
    /\ \A k \in 1..Len(trace) : FailedThenRerun(k) =>
          EventsAbout(trace[k].run + 1, trace[k].sheet, trace[k].i, Creates) # {}

\* C9 as amended: the candidate gets a create request again in the next run unless a
\* record with its IdentityKey was created meanwhile, and then it is skipped.
C9_RetryUnlessTwin ==
    /\ OneCreateEach
    /\ \A k \in 1..Len(trace) : FailedThenRerun(k) =>
          IF TwinCreated(k)
          THEN EventsAbout(trace[k].run + 1, trace[k].sheet, trace[k].i, {"skip"}) # {}
          ELSE EventsAbout(trace[k].run + 1, trace[k].sheet, trace[k].i, Creates) # {}

\* a create failed, no twin was created, and the next run created the record
C9_Witness ==
    \E k \in 1..Len(trace) :
        /\ FailedThenRerun(k)
        /\ ~TwinCreated(k)
        /\ EventsAbout(trace[k].run + 1, trace[k].sheet, trace[k].i, {"create_ok"}) # {}

(***************************************************************************)
(* C10  Processing order                                                   *)
(***************************************************************************)
\* event a is about an earlier run, sheet or candidate than event b
Earlier(a, b) ==
    \/ a.run < b.run
    \/ a.run = b.run /\ a.sheet < b.sheet
    \/ a.run = b.run /\ a.sheet = b.sheet /\ a.i < b.i

\* the successful creates on table t, in the order of their responses
CreatedOn(t) == SelectSeq(trace, LAMBDA e : e.ev = "create_ok" /\ TableOf(e) = t)

EchoesOf(events) == [k \in 1..Len(events) |-> StoredEcho(Cand(events[k]), k)]

\* C10: remote calls are answered one at a time, in the order of runs, of sheets and
\* of the candidate list, a sheet's fetch before its creates, and the store holds the
\* created records in that order.
C10_ProcessingOrder ==
    /\ Cardinality(inflight) <= 1
    /\ inflight # {} <=> pc \in {"wait_sensor_types", "wait_existing", "wait_create"}
    /\ \A k \in 1..(Len(trace) - 1) : Earlier(trace[k], trace[k + 1])
    /\ \A t \in Tables : store[t] = EchoesOf(CreatedOn(t))

\* two candidates of one sheet and a candidate of the next sheet were created in a run
C10_Witness ==
    /\ Cardinality(EventsOf(1, 1, {"create_ok"})) >= 2
    /\ EventsOf(1, 2, {"create_ok"}) # {}
    /\ pc = "done"

(***************************************************************************)
(* C6  What the sampler selects for a target hour                          *)
(***************************************************************************)
SheetRows == book[1].df.rows

\* the sampler has run on a sheet with a Timestamp column
SampledCase == pc = "sampled" /\ "Timestamp" \in book[1].df.columns

StampOf(row) == ParseTimestamp(RowGet(row, "Timestamp"))

MinuteOfDay(row) == 60 * StampOf(row).hour + StampOf(row).minute

\* every row of the sheet has a timestamp, all of one calendar day
OneDay ==
    \A i, j \in 1..Len(SheetRows) :
        StampOf(SheetRows[i]).ok /\ StampOf(SheetRows[i]).date = StampOf(SheetRows[j]).date

\* the rows with time-of-day at or after hour:00
AtOrAfter(hour) == {i \in 1..Len(SheetRows) : MinuteOfDay(SheetRows[i]) >= 60 * hour}

\* the earliest-timestamp row at or after hour:00, if there is one
EarliestAtOrAfter(hour) ==
    IF AtOrAfter(hour) = {} THEN <<>>
    ELSE << SheetRows[CHOOSE i \in AtOrAfter(hour) : \A j \in AtOrAfter(hour) :
                         MinuteOfDay(SheetRows[i]) <= MinuteOfDay(SheetRows[j])] >>

\* the rows whose timestamp parses and has the hour-of-day `hour`
AtHour(hour) ==
    {i \in 1..Len(SheetRows) : StampOf(SheetRows[i]).ok /\ StampOf(SheetRows[i]).hour = hour}

\* the first row in sheet order at the hour, if there is one
FirstAtHour(hour) ==
    IF AtHour(hour) = {} THEN <<>>
    ELSE << SheetRows[CHOOSE i \in AtHour(hour) : \A j \in AtHour(hour) : i <= j] >>

\* C6 as claimed: on a one-day sheet the sampler selects, for 12:00 and for 20:00, the
\* earliest-timestamp row with time-of-day at or after the instant, whenever there is
\* one.
C6_AtOrAfter ==
    (SampledCase /\ OneDay) =>
        sampled = EarliestAtOrAfter(NoonHour) \o EarliestAtOrAfter(EveningHour)

\* C6 as amended: the sampler selects a row for a target hour exactly when some row
\* with a timestamp has that hour-of-day, and it is the first such row in sheet order.
C6_FirstAtHour ==
    SampledCase => sampled = FirstAtHour(NoonHour) \o FirstAtHour(EveningHour)

\* a one-day sheet with a row at 13:05 and the row of 12:40 above the row of 12:03:
\* the row of 12:40 is the only selection
C6_Witness ==
    /\ SampledCase /\ OneDay
    /\ \E i \in 1..Len(SheetRows) : StampOf(SheetRows[i]).hour = 13
    /\ \E i, j \in AtHour(NoonHour) :
          i < j /\ MinuteOfDay(SheetRows[i]) > MinuteOfDay(SheetRows[j])
    /\ Len(sampled) = 1
    /\ StampOf(sampled[1]).minute = 40

(***************************************************************************)
(* C7  The sampler and the calendar day                                    *)
(***************************************************************************)
DatesAtHour(hour) == {StampOf(SheetRows[i]).date : i \in AtHour(hour)}

SampledAtHour(hour) == {k \in 1..Len(sampled) : StampOf(sampled[k]).hour = hour}

\* C7 as claimed: every date with a row at a target hour contributes one selected row
\* of that date for that hour.
C7_PerDay ==
    SampledCase =>
        \A hour \in {NoonHour, EveningHour} : \A d \in DatesAtHour(hour) :
            Cardinality({k \in SampledAtHour(hour) : StampOf(sampled[k]).date = d}) = 1

\* C7 as amended: the sampler makes one selection per target hour over the whole
\* sheet, whatever the dates: at most one row per target hour, at most two rows.
C7_PerSheet ==
    SampledCase =>
        /\ Len(sampled) <= 2
        /\ \A hour \in {NoonHour, EveningHour} :
              Cardinality(SampledAtHour(hour)) = IF DatesAtHour(hour) = {} THEN 0 ELSE 1
        /\ \A k \in 1..Len(sampled) : StampOf(sampled[k]).hour \in {NoonHour, EveningHour}

\* noon rows of two dates and evening rows of two dates: two rows are selected
C7_Witness ==
    /\ SampledCase
    /\ Cardinality(DatesAtHour(NoonHour)) = 2
    /\ Cardinality(DatesAtHour(EveningHour)) = 2
    /\ Len(sampled) = 2

(***************************************************************************)
(* The two keys alone: a candidate is created and the table is fetched     *)
(***************************************************************************)
\* a field the candidate does not have
Absent == <<"absent">>

OrAbsent(values) == values \cup {Absent}

AlertCandidates ==
    [alert_date : OrAbsent({Day1}),
     alert_time : OrAbsent({At(Day1, "1", "2", "0", "3")}),
     location : OrAbsent({<<"H", "a", "l", "l">>}),
     severity : OrAbsent({<<"H", "i", "g", "h">>}),
     message : OrAbsent({<<"F", "a", "l", "l">>}),
     sensor_type_id : OrAbsent({AlertSensor})]

SensorCandidates ==
    [record_date : OrAbsent({Day1}),
     record_time : OrAbsent({At(Day1, "2", "0", "1", "0")}),
     location : OrAbsent({<<"H", "a", "l", "l">>}),
     sensor_type_id : OrAbsent({DefaultSensor}),
     status : OrAbsent({<<"O", "K">>}),
     numeric_value : OrAbsent({<<"3", ".", "0">>, <<"2", "3", ".", "5">>}),
     text_value : OrAbsent({<<"o", "n">>}),
     is_active : OrAbsent({S_false, <<"t", "r", "u", "e">>})]

\* the dict with the fields that are there
Present(full) == [f \in {g \in DOMAIN full : full[g] # Absent} |-> full[f]]

KeysInit ==
    /\ table \in Tables
    /\ \E full \in AlertCandidates \cup SensorCandidates :
          /\ (table = AlertTable) <=> (full \in AlertCandidates)
          /\ records = <<Present(full)>>
    /\ book = <<>>
    /\ store = [t \in Tables |-> <<>>]
    /\ run = 1
    /\ pc = "keys"
    /\ sensor_types = <<>>
    /\ sheet_i = 1
    /\ existing = EmptyIndex
    /\ rec_i = 1
    /\ cnt = NoCount
    /\ total = NoCount
    /\ exit_code = 0
    /\ inflight = {}
    /\ faults = 0
    /\ trace = <<>>
    /\ hist = <<>>
    /\ sampled = <<>>
    /\ arg = <<>>
    /\ out = <<>>

\* lines 497-498 and then line 460 of the next sync: the candidate is created, the
\* store echoes it, and the table is fetched
CreateThenFetch ==
    /\ pc = "keys"
    /\ ~IdentityMissing(table, records[rec_i])
    /\ store' = [store EXCEPT ![table] = Append(@, StoredEcho(records[rec_i], Len(@) + 1))]
    /\ existing' = get_existing_records(TRUE, table, store'[table])
    /\ pc' = "keyed"
    /\ UNCHANGED <<book, run, sensor_types, sheet_i, table, records, rec_i, cnt, total,
                   exit_code, inflight, faults, trace, hist, sampled, arg, out>>

KeysNext == CreateThenFetch

SpecKeys == KeysInit /\ [][KeysNext]_vars

JustFailed ==
    /\ Len(trace) > 0
    /\ trace[Len(trace)].ev = "create_fail"
    /\ trace[Len(trace)].run = run
    /\ trace[Len(trace)].sheet = sheet_i

\* C11: a failed create is counted failed exactly once, raises nothing out of
\* sync_records, and the candidates and the sheets after it are processed.
C11_WriteFailureContained ==
    /\ JustFailed =>
          /\ InSync
          /\ rec_i = trace[Len(trace)].i + 1
          /\ cnt.failed = Cardinality(EventsOf(run, sheet_i, {"reject", "create_fail"}))
          /\ cnt.created = Cardinality(EventsOf(run, sheet_i, {"create_ok"}))
    /\ \A k \in 1..Len(trace) : trace[k].ev = "create_fail" =>
          /\ EventsAbout(trace[k].run, trace[k].sheet, trace[k].i, Outcomes \cup {"raise"})
                = {k}
          /\ SheetDone(trace[k].run, trace[k].sheet) =>
                \A i \in (trace[k].i + 1)..Len(Cands(trace[k].run, trace[k].sheet)) :
                    EventsAbout(trace[k].run, trace[k].sheet, i, Outcomes) # {}
          /\ Completed(trace[k].run) =>
                /\ hist[trace[k].run].total.failed
                      = Cardinality(RunEvents(trace[k].run, {"reject", "create_fail"}))
                /\ \A s \in (trace[k].sheet + 1)..Len(book) :
                      Cands(trace[k].run, s) # <<>>
                         => EventsOf(trace[k].run, s, {"list_ok", "list_fail"}) # {}

\* the create of the first candidate of the first sheet failed, the second candidate
\* was created, the second sheet was synced and the run reached its summary
C11_Witness ==
    /\ Completed(1)
    /\ EventsAbout(1, 1, 1, {"create_fail"}) # {}
    /\ EventsAbout(1, 1, 2, {"create_ok"}) # {}
    /\ EventsOf(1, 2, {"create_ok"}) # {}
    /\ hist[1].total = Counts(2, 0, 1)

(***************************************************************************)
(* normalize_value alone: applied to a text, and to its own result         *)
(***************************************************************************)
MaxSuffixes == 2

\* sentinels, numbers, times of day, special float literals and plain text
NormalizeCores ==
    { <<>>, S_nan, S_NaT, S_None, <<"n", "u", "l", "l">>,
      <<"3">>, <<"3", ".", "0">>, <<"2", "3", ".", "5">>, <<"-", "0", ".", "0">>,
      <<"2", "0", ":", "5", "7", ":", "4", "5">>, <<"1", "2", ":", "0", "3">>,
      <<"H", "a", "l", "l">>, S_inf, <<"I", "n", "f", "i", "n", "i", "t", "y">> }

\* fractional seconds, a UTC offset, the Zulu mark
NormalizeSuffixes ==
    << <<".", "0", "0", "0">>, <<"+", "0", "5", ":", "0", "0">>, <<"Z">> >>

RECURSIVE WithSuffixes(_, _)
WithSuffixes(text, picks) ==
    IF picks = <<>> THEN text
    ELSE WithSuffixes(text \o NormalizeSuffixes[Head(picks)], Tail(picks))

Padded(text, pad) == IF pad THEN <<" ">> \o text \o <<" ">> ELSE text

NormalizeInputs ==
    { Padded(WithSuffixes(core, picks), pad) :
        core \in NormalizeCores,
        picks \in SeqsUpTo(1..Len(NormalizeSuffixes), MaxSuffixes),
        pad \in BOOLEAN }

NormalizeInit ==
    /\ arg \in NormalizeInputs
    /\ out = <<>>
    /\ pc = "normalize"
    /\ book = <<>>
    /\ store = [t \in Tables |-> <<>>]
    /\ run = 1
    /\ sensor_types = <<>>
    /\ sheet_i = 0
    /\ table = AlertTable
    /\ records = <<>>
    /\ existing = EmptyIndex
    /\ rec_i = 0
    /\ cnt = NoCount
    /\ total = NoCount
    /\ exit_code = 0
    /\ inflight = {}
    /\ faults = 0
    /\ trace = <<>>
    /\ hist = <<>>
    /\ sampled = <<>>

\* normalize_value(x): its result, or the exception that leaves it
Normalize ==
    /\ pc = "normalize"
    /\ out' = <<normalize_value(arg)>>
    /\ pc' = "normalized"
    /\ UNCHANGED <<arg, book, store, run, sensor_types, sheet_i, table, records, existing,
                   rec_i, cnt, total, exit_code, inflight, faults, trace, hist, sampled>>

\* normalize_value(normalize_value(x)), when the first call returned
NormalizeAgain ==
    /\ pc = "normalized"
    /\ out[1] # OverflowError
    /\ out' = Append(out, normalize_value(out[1]))
    /\ pc' = "renormalized"
    /\ UNCHANGED <<arg, book, store, run, sensor_types, sheet_i, table, records, existing,
                   rec_i, cnt, total, exit_code, inflight, faults, trace, hist, sampled>>

NormalizeNext == Normalize \/ NormalizeAgain

SpecNormalize == NormalizeInit /\ [][NormalizeNext]_vars

(***************************************************************************)
(* C12  Normalizer idempotence                                             *)
(***************************************************************************)
\* C12: for every input x, normalize_value returns, and
\* normalize_value(normalize_value(x)) = normalize_value(x).
C12_Idempotent ==
    /\ pc = "normalized" => out[1] # OverflowError
    /\ pc = "renormalized" => out[2] = out[1]

(***************************************************************************)
(* main over a workbook of one sheet, whatever its name                    *)
(***************************************************************************)
\* the label in three cases, with a blank after it and before it, and two other names
SheetNamePool ==
    { S_ALERTS, <<"A", "l", "e", "r", "t", "s">>, <<"a", "l", "e", "r", "t", "s">>,
      <<"A", "L", "E", "R", "T", "S", " ">>, <<" ", "a", "l", "e", "r", "t", "s">>,
      <<"A", "L", "E", "R", "T">>, <<"P", "I", "R">> }

OneSheetBooks ==
    { << [name |-> name, df |-> Frame(indices)] >> :
        name \in SheetNamePool, indices \in SeqsUpTo(1..Len(RowPool), MaxRows) }

SheetsInit ==
    /\ book \in OneSheetBooks
    /\ store = [t \in Tables |-> <<>>]
    /\ run = 1
    /\ pc = "start"
    /\ sensor_types = <<>>
    /\ sheet_i = 0
    /\ table = AlertTable
    /\ records = <<>>
    /\ existing = EmptyIndex
    /\ rec_i = 0
    /\ cnt = NoCount
    /\ total = NoCount
    /\ exit_code = 0
    /\ inflight = {}
    /\ faults = 0
    /\ trace = <<>>
    /\ hist = <<>>
    /\ sampled = <<>>
    /\ arg = <<>>
    /\ out = <<>>

SpecSheets == SheetsInit /\ [][Next]_vars

(***************************************************************************)
(* C13  Sheet classification                                               *)
(***************************************************************************)
\* main has handed the candidates of sheet_i to sync_records
Routed == pc \in {"sync_return", "wait_existing", "record", "wait_create"}

\* the name, trimmed and without regard to case, is the alert-sheet label
IsLabel(sheet_name) == ToUpper(Strip(sheet_name)) = S_ALERTS

\* C13: a sheet whose name, trimmed and ignoring case, is 'ALERTS' is mapped from all
\* its rows and goes to the alert table; any other sheet is sampled and goes to the
\* sensor-record table.
C13_Classification ==
    Routed =>
        IF IsLabel(book[sheet_i].name)
        THEN /\ table = AlertTable
             /\ records = transform_alert_data(book[sheet_i].df)
        ELSE /\ table = SensorTable
             /\ records = transform_sensor_data(filter_sensor_data_by_hour(book[sheet_i].df),
                                                book[sheet_i].name, sensor_types)

(***************************************************************************)
(* get_sensor_type_id_for_sheet alone: a sheet name and a lookup cache     *)
(***************************************************************************)
MaxTypes == 3

Sensor(n) == <<"S", "E", "N", "S", "O", "R", " ", n>>

TypeEntry(type_name, n) == [type_name |-> type_name, sensor_type_id |-> Sensor(n)]

\* PIR, Pir, mmWave and "mmWave 2", each with an id of its own
TypeEntries ==
    << TypeEntry(<<"P", "I", "R">>, "2"), TypeEntry(<<"P", "i", "r">>, "3"),
       TypeEntry(<<"m", "m", "W", "a", "v", "e">>, "7"),
       TypeEntry(<<"m", "m", "W", "a", "v", "e", " ", "2">>, "8") >>

\* the caches: at most MaxTypes of the entries, in any order of insertion
TypeCaches ==
    { [i \in 1..Len(picks) |-> TypeEntries[picks[i]]] :
        picks \in { q \in SeqsUpTo(1..Len(TypeEntries), MaxTypes) :
                      \A i, j \in 1..Len(q) : q[i] = q[j] => i = j } }

ResolveNames ==
    { <<"P", "I", "R">>, <<"p", "i", "r">>, <<" ", "P", "I", "R", " ">>,
      <<"m", "m", "W", "a", "v", "e", " ", "2">>, <<"M", "M", "W", "A", "V", "E">>,
      <<"H", "a", "l", "l">> }

ResolveInit ==
    /\ arg \in [sheet_name : ResolveNames, sensor_types : TypeCaches]
    /\ out = <<>>
    /\ pc = "resolve"
    /\ book = <<>>
    /\ store = [t \in Tables |-> <<>>]
    /\ run = 1
    /\ sensor_types = <<>>
    /\ sheet_i = 0
    /\ table = SensorTable
    /\ records = <<>>
    /\ existing = EmptyIndex
    /\ rec_i = 0
    /\ cnt = NoCount
    /\ total = NoCount
    /\ exit_code = 0
    /\ inflight = {}
    /\ faults = 0
    /\ trace = <<>>
    /\ hist = <<>>
    /\ sampled = <<>>

\* line 277: sensor_type_id = self.get_sensor_type_id_for_sheet(sheet_name)
Resolve ==
    /\ pc = "resolve"
    /\ sensor_types' = arg.sensor_types
    /\ out' = get_sensor_type_id_for_sheet(arg.sheet_name, arg.sensor_types)
    /\ pc' = "resolved"
    /\ UNCHANGED <<arg, book, store, run, sheet_i, table, records, existing, rec_i, cnt,
                   total, exit_code, inflight, faults, trace, hist, sampled>>

ResolveNext == Resolve

SpecResolve == ResolveInit /\ [][ResolveNext]_vars

(***************************************************************************)
(* C14  Sensor-type resolution precedence                                  *)
(***************************************************************************)
Trimmed == Strip(arg.sheet_name)

IsMmwaveName == HasSubstring(ToLower(Trimmed), S_mmwave)

\* the entries of the cache, by the way they match the name
ExactEntries == {i \in 1..Len(sensor_types) : sensor_types[i].type_name = Trimmed}

LowerEntries ==
    {i \in 1..Len(sensor_types) : ToLower(sensor_types[i].type_name) = ToLower(Trimmed)}

FamilyEntries ==
    {i \in 1..Len(sensor_types) : ToLower(sensor_types[i].type_name) = S_mmwave}

\* the id of the first of the entries, in the order of the cache
FirstId(entries) == sensor_types[CHOOSE i \in entries : \A j \in entries : i <= j].sensor_type_id

FamilyId == IF FamilyEntries = {} THEN DefaultMmWave ELSE FirstId(FamilyEntries)

\* C14 as claimed: the exact-name entry, else a case-insensitive match, else the mmWave
\* family id for a name containing 'mmwave', else the default.
C14_ExactFirst ==
    pc = "resolved" =>
        out = IF ExactEntries # {} THEN FirstId(ExactEntries)
              ELSE IF LowerEntries # {} THEN FirstId(LowerEntries)
              ELSE IF IsMmwaveName THEN FamilyId
              ELSE DefaultSensor

\* C14 as amended: a name containing 'mmwave' gets the mmWave family id whatever the
\* cache holds under that name; any other name gets its exact-name entry, else the
\* first case-insensitive match, else the default.
C14_MmwaveFirst ==
    pc = "resolved" =>
        /\ IsMmwaveName => out = FamilyId
        /\ (~IsMmwaveName /\ ExactEntries # {}) => out = FirstId(ExactEntries)
        /\ (~IsMmwaveName /\ ExactEntries = {} /\ LowerEntries # {})
              => out = FirstId(LowerEntries)
        /\ (~IsMmwaveName /\ LowerEntries = {}) => out = DefaultSensor

\* the sheet "mmWave 2" with an entry of that very name in the cache, and the family
\* entry too: the family id is returned
C14_Witness ==
    /\ pc = "resolved"
    /\ IsMmwaveName
    /\ ExactEntries # {}
    /\ FamilyEntries # {}
    /\ out = Sensor("7")

(***************************************************************************)
(* transform_alert_data and transform_sensor_data alone                    *)
(***************************************************************************)
MaxMapRows == 2

\* an empty cell, a number, a percentage, a date, a time of day, a word, a float
\* literal that is no number, and a number between blanks
ValueCells ==
    { S_nan, <<"3">>, <<"2", "3", ".", "5", "%">>, Day1, <<"1", "2", ":", "3", "0">>,
      <<"F", "A", "L", "L">>, <<"N", "a", "N">>, <<" ", "7", " ">> }

\* every column holds a value or is empty (nan, and NaT for a timestamp)
MapRows ==
    [Date : {S_nan, Day1},
     Timestamp : {S_NaT, At(Day1, "1", "2", "0", "3")},
     Location : {S_nan, <<"H", "a", "l", "l">>},
     Value : ValueCells,
     Status : {S_nan, <<"O", "K">>}]

RECURSIVE FramesUpTo(_, _)
FramesUpTo(rows, n) ==
    IF n = 0 THEN {<<>>}
    ELSE LET shorter == FramesUpTo(rows, n - 1)
         IN  shorter \cup {<<r>> \o q : r \in rows, q \in {t \in shorter : Len(t) = n - 1}}

TransformInit ==
    /\ arg \in [alert : BOOLEAN, rows : FramesUpTo(MapRows, MaxMapRows) \ {<<>>}]
    /\ out = <<>>
    /\ pc = "transform"
    /\ book = <<>>
    /\ store = [t \in Tables |-> <<>>]
    /\ run = 1
    /\ sensor_types = <<>>
    /\ sheet_i = 0
    /\ table = AlertTable
    /\ records = <<>>
    /\ existing = EmptyIndex
    /\ rec_i = 0
    /\ cnt = NoCount
    /\ total = NoCount
    /\ exit_code = 0
    /\ inflight = {}
    /\ faults = 0
    /\ trace = <<>>
    /\ hist = <<>>
    /\ sampled = <<>>

\* lines 557 and 567: the rows of a sheet are mapped to candidate records
Transform ==
    /\ pc = "transform"
    /\ out' = IF arg.alert
              THEN transform_alert_data([columns |-> AllColumns, rows |-> arg.rows])
              ELSE transform_sensor_data([columns |-> AllColumns, rows |-> arg.rows],
                                         SheetNames[2], sensor_types)
    /\ pc' = "transformed"
    /\ UNCHANGED <<arg, book, store, run, sensor_types, sheet_i, table, records, existing,
                   rec_i, cnt, total, exit_code, inflight, faults, trace, hist, sampled>>

TransformNext == Transform

SpecTransform == TransformInit /\ [][TransformNext]_vars

(***************************************************************************)
(* C15  Structurally empty rows                                            *)
(***************************************************************************)
IsBlank(cell) == cell \in {<<>>, S_nan, S_NaT}

\* the value of a measurement row is mapped to numeric_value or to text_value
HasValue(row) ==
    /\ Strip(row.Value) \notin {<<>>, S_nan, S_NaT, S_None}
    /\ ToLower(CleanValue(Strip(row.Value))) # S_nan

\* the mapped fields of a row that are not empty, the mandatory identifiers (the
\* sensor-type id, the active flag) left out
FilledFields(alert, row) ==
    Cardinality({c \in {"Date", "Timestamp", "Location", "Status"} : ~IsBlank(row[c])})
       + (IF alert THEN (IF IsBlank(row.Value) THEN 0 ELSE 1)
                   ELSE (IF HasValue(row) THEN 1 ELSE 0))

\* the rows with at least n filled fields, in their order
RowsWith(n) == SelectSeq(arg.rows, LAMBDA row : FilledFields(arg.alert, row) >= n)

\* the fields an output record took from its row
TakenFields(record) == Cardinality(DOMAIN record \ {"sensor_type_id", "is_active"})

\* C15: a row yields a candidate record exactly when at least 3 of its mapped fields
\* other than the mandatory identifiers are non-empty, and then exactly one.
C15_ThreeFields ==
    pc = "transformed" =>
        /\ Len(out) = Len(RowsWith(3))
        /\ \A k \in 1..Len(out) : TakenFields(out[k]) >= 3

(***************************************************************************)
(* C16  Value-kind exclusivity                                             *)
(***************************************************************************)
\* the measurement rows that yield a record, in their order: out[k] is the record of
\* KeptRows[k]
KeptRows == RowsWith(1)

MeasurementCase == pc = "transformed" /\ ~arg.alert

Populated(record) == DOMAIN record \cap {"numeric_value", "text_value"}

\* the cell holds a ':' or has the shape of a date
DateOrTime(cell) ==
    \/ \E i \in 1..Len(cell) : cell[i] = ":"
    \/ Len(cell) >= 8 /\ Cardinality({i \in 1..Len(cell) : cell[i] = "-"}) >= 2

\* C16 as claimed: every measurement record has exactly one of numeric_value and
\* text_value, and a cell with ':' or of date shape goes to text_value.
C16_ExactlyOne ==
    MeasurementCase =>
        \A k \in 1..Len(out) :
            /\ Cardinality(Populated(out[k])) = 1
            /\ DateOrTime(Strip(KeptRows[k].Value)) => Populated(out[k]) = {"text_value"}

\* C16 as amended: a measurement record has at most one of numeric_value and
\* text_value, and none when the Value cell is empty or is no number but nan; a cell
\* with ':' or of date shape goes to text_value as it is.
C16_AtMostOne ==
    MeasurementCase =>
        /\ Len(out) = Len(KeptRows)
        /\ \A k \in 1..Len(out) :
              /\ Cardinality(Populated(out[k])) = IF HasValue(KeptRows[k]) THEN 1 ELSE 0
              /\ DateOrTime(Strip(KeptRows[k].Value)) =>
                    /\ Populated(out[k]) = {"text_value"}
                    /\ out[k].text_value = Strip(KeptRows[k].Value)

\* a sheet with a date in the Value cell of one row and nothing in that of the other:
\* the first record has the text, the second neither
C16_Witness ==
    /\ MeasurementCase
    /\ Len(out) = 2
    /\ Populated(out[1]) = {"text_value"}
    /\ out[1].text_value = Day1
    /\ Populated(out[2]) = {}

(***************************************************************************)
(* C17  Sampler degradation                                                *)
(***************************************************************************)
HasTimestampColumn == "Timestamp" \in book[1].df.columns

NoRowParses == \A i \in 1..Len(SheetRows) : ~StampOf(SheetRows[i]).ok

\* the candidates main maps from the rows the sampler returned
SampledRecords ==
    transform_sensor_data([columns |-> book[1].df.columns, rows |-> sampled],
                          book[1].name, <<>>)

\* C17 as claimed: a non-empty sheet without the timestamp column, or with no
\* timestamp that parses, comes back from the sampler with all its rows.
C17_AllRows ==
    (pc = "sampled" /\ SheetRows # <<>> /\ (~HasTimestampColumn \/ NoRowParses)) =>
        sampled = SheetRows

\* C17 as amended: without the timestamp column the sampler returns all rows, and the
\* records mapped from them have no time; with the column and no timestamp that
\* parses it returns no row at all.
C17_Degradation ==
    pc = "sampled" =>
        /\ ~HasTimestampColumn =>
              /\ sampled = SheetRows
              /\ Len(SampledRecords) = Len(SheetRows)
              /\ \A k \in 1..Len(SampledRecords) :
                    IdentityMissing(SensorTable, SampledRecords[k])
        /\ (HasTimestampColumn /\ NoRowParses) => sampled = <<>>

\* a sheet of two rows with the column and no timestamp that parses: nothing is returned
C17_Witness ==
    /\ pc = "sampled"
    /\ HasTimestampColumn
    /\ Len(SheetRows) = 2
    /\ NoRowParses
    /\ sampled = <<>>

(***************************************************************************)
(* C18  Sampler output shape                                               *)
(***************************************************************************)
StampsOf(rows) == [i \in 1..Len(rows) |-> RowGet(rows[i], "Timestamp")]

\* 11:55, 12:03, 19:58 and 20:10 of one day
ExampleStamps ==
    << At(Day1, "1", "1", "5", "5"), At(Day1, "1", "2", "0", "3"),
       At(Day1, "1", "9", "5", "8"), At(Day1, "2", "0", "1", "0") >>

\* C18: the sampler returns no row twice and no two rows of one timestamp, the noon
\* selection before the evening selection whatever the order of the sheet; the rows
\* of 11:55, 12:03, 19:58 and 20:10 give [12:03, 20:10].
C18_OutputShape ==
    SampledCase =>
        /\ \A j, k \in 1..Len(sampled) :
              j < k => /\ StampOf(sampled[j]).hour = NoonHour
                       /\ StampOf(sampled[k]).hour = EveningHour
                       /\ StampsOf(sampled)[j] # StampsOf(sampled)[k]
        /\ StampsOf(SheetRows) = ExampleStamps =>
              StampsOf(sampled) = << ExampleStamps[2], ExampleStamps[4] >>

\* the sheet of the example has been sampled, two rows came back
C18_Witness ==
    /\ SampledCase
    /\ StampsOf(SheetRows) = ExampleStamps
    /\ Len(sampled) = 2

(***************************************************************************)
(* The key of two candidates of one kind                                   *)
(***************************************************************************)
\* alert rows whose Location and Value cells may hold a '|'
PipeAlerts ==
    [alert_date : {Day1},
     alert_time : {At(Day1, "1", "2", "0", "3")},
     location : {<<"A">>, <<"A", "|", "B">>},
     severity : {<<"C">>, <<"B", "|", "C">>},
     message : OrAbsent({<<"F", "a", "l", "l">>}),
     sensor_type_id : {AlertSensor}]

\* measurement rows whose Status and Value cells may hold a '|'
PipeSensors ==
    [record_date : {Day1},
     record_time : {At(Day1, "2", "0", "1", "0")},
     location : OrAbsent({<<"A">>}),
     sensor_type_id : {DefaultSensor},
     status : {<<"O", "K">>, <<"O", "K", "|">>},
     numeric_value : OrAbsent({<<"3", ".", "0">>}),
     text_value : {<<"o", "n">>, <<"|", "o", "n">>},
     is_active : {S_false}]

KeyPairsInit ==
    /\ table \in Tables
    /\ \E one, two \in PipeAlerts \cup PipeSensors :
          /\ (table = AlertTable) <=> (one \in PipeAlerts)
          /\ (table = AlertTable) <=> (two \in PipeAlerts)
          /\ arg = << Present(one), Present(two) >>
    /\ out = <<>>
    /\ records = <<>>
    /\ book = <<>>
    /\ store = [t \in Tables |-> <<>>]
    /\ run = 1
    /\ pc = "pair"
    /\ sensor_types = <<>>
    /\ sheet_i = 1
    /\ existing = EmptyIndex
    /\ rec_i = 1
    /\ cnt = NoCount
    /\ total = NoCount
    /\ exit_code = 0
    /\ inflight = {}
    /\ faults = 0
    /\ trace = <<>>
    /\ hist = <<>>
    /\ sampled = <<>>

\* lines 468-486, for each of the two candidates
KeyBoth ==
    /\ pc = "pair"
    /\ out' = << CandidateKey(table, arg[1]), CandidateKey(table, arg[2]) >>
    /\ pc' = "paired"
    /\ UNCHANGED <<book, store, run, sensor_types, sheet_i, table, records, existing,
                   rec_i, cnt, total, exit_code, inflight, faults, trace, hist, sampled,
                   arg>>

KeyPairsNext == KeyBoth

SpecKeyPairs == KeyPairsInit /\ [][KeyPairsNext]_vars

(***************************************************************************)
(* C19  IdentityKey injectivity                                            *)
(***************************************************************************)
\* the normalized identity fields of a candidate, in the order of the key
IdentityFields(record) == KeyParts(CandidateKeyFields(table), record)

\* C19 as claimed: two candidates of one kind have the same '|'-joined key only if
\* their normalized identity fields are equal field by field.
C19_Injective ==
    (pc = "paired" /\ out[1] = out[2]) =>
        IdentityFields(arg[1]) = IdentityFields(arg[2])

(***************************************************************************)
(* C20  Fatal configuration error                                          *)
(***************************************************************************)
\* the requests and candidates of run r that the trace knows of
RunActivity(r) == {k \in 1..Len(trace) : trace[k].run = r}

\* run r ended in the handler of lines 594-598 after its client was constructed
AbortedAfterStart(r) == hist[r].loaded /\ RunEvents(r, {"raise"}) # {}

\* C20 as claimed: a run without the credentials ends with exit code 1 before any
\* request is made and any sheet is read; a run with the credentials is aborted by no
\* error of a sheet or of a record.
C20_OnlyCredentialsAbort ==
    \A r \in 1..Len(hist) :
        /\ ~hist[r].loaded => (hist[r].exit_code = 1 /\ RunActivity(r) = {})
        /\ ~AbortedAfterStart(r)

(***************************************************************************)
(* C21  The sensor-type cache is written once                              *)
(***************************************************************************)
Lookups == {"lookup_ok", "lookup_fail"}

\* main is past line 523 in the current run
PastLookup == pc \notin {"start", "get_sensor_types", "wait_sensor_types"} /\ RunActivity(run) # {}

\* the cache as the lookup of run r left it
CacheOf(r) ==
    IF RunEvents(r, {"lookup_fail"}) # {} THEN <<>> ELSE BuildSensorTypes(SensorTypeRows, <<>>)

DefaultIds == {DefaultSensor, DefaultMmWave}

\* C21: a run fetches the sensor types exactly once, before anything else it requests
\* or processes, and the cache stays what that fetch made it; after a failed fetch the
\* cache is empty, every measurement candidate carries a default identifier and the
\* run goes on through all its sheets.
C21_WriteOnce ==
    /\ \A r \in 1..run :
          RunActivity(r) # {} =>
              /\ Cardinality(RunEvents(r, Lookups)) = 1
              /\ \A k \in RunActivity(r) : \A j \in RunEvents(r, Lookups) : j <= k
    /\ PastLookup => sensor_types = CacheOf(run)
    /\ \A r \in 1..Len(hist) : hist[r].loaded => hist[r].types = CacheOf(r)
    /\ (PastLookup /\ RunEvents(run, {"lookup_fail"}) # {}) =>
          /\ (InSync /\ table = SensorTable) =>
                \A i \in 1..Len(records) : records[i].sensor_type_id \in DefaultIds
          /\ (pc = "done" /\ RunEvents(run, {"raise"}) = {}) => sheet_i > Len(book)

\* the lookup of the run failed and a measurement candidate was created with the
\* default identifier
C21_Witness ==
    /\ pc = "done"
    /\ RunEvents(1, {"lookup_fail"}) # {}
    /\ \E k \in RunEvents(1, {"create_ok"}) :
          /\ TableOf(trace[k]) = SensorTable
          /\ store[SensorTable][1].sensor_type_id = DefaultSensor

(***************************************************************************)
(* C22  The reconciler only creates                                        *)
(***************************************************************************)
StoreSize == Len(store[AlertTable]) + Len(store[SensorTable])

\* the records of table t before the step are still there after it, unchanged
Kept(t) ==
    /\ Len(store[t]) <= Len(store[t]')
    /\ \A n \in 1..Len(store[t]) : store[t]'[n] = store[t][n]

\* C22: every request is a list or a create; no step changes or removes a remote
\* record; a step that counts a candidate skipped or failed writes nothing, and the
\* store gains exactly one record in exactly the steps that count a candidate created.
C22_CreateOnly ==
    [][ /\ \A q \in inflight' : q.op \in {"list", "create"}
        /\ \A t \in Tables : Kept(t)
        /\ (cnt'.skipped > cnt.skipped \/ cnt'.failed > cnt.failed) => store' = store
        /\ IF cnt'.created = cnt.created + 1
           THEN StoreSize' = StoreSize + 1
           ELSE store' = store ]_vars

\* over two runs, candidates were created, one was rejected and one was skipped
C22_Witness ==
    /\ pc = "done"
    /\ run = 2
    /\ StoreSize >= 2
    /\ RunEvents(1, {"reject"}) # {}
    /\ RunEvents(2, {"skip"}) # {}

(***************************************************************************)
(* C23  Outcome counts are conserved                                       *)
(***************************************************************************)
\* the counts the trace gives for the events at the positions ks
Tally(ks) ==
    Counts(Cardinality({k \in ks : trace[k].ev = "create_ok"}),
           Cardinality({k \in ks : trace[k].ev = "skip"}),
           Cardinality({k \in ks : trace[k].ev \in {"reject", "create_fail"}}))

\* the outcomes of run r in the sheets before sheet s
OutcomesBefore(r, s) == {k \in RunEvents(r, Outcomes) : trace[k].sheet < s}

\* sync_records is about to return: line 504
Returning == pc = "sync_return" \/ (pc = "record" /\ rec_i > Len(records))

Lists == {"list_ok", "list_fail"}

\* the position in the trace of the fetch-existing of the current call
ListPos == CHOOSE k \in EventsOf(run, sheet_i, Lists) : TRUE

\* the records the table held when the current call fetched it
AtFetch ==
    SubSeq(store[table], 1,
           Cardinality({k \in 1..ListPos :
                           trace[k].ev = "create_ok" /\ TableOf(trace[k]) = table}))

\* the index of the table as it was at the fetch, empty if the fetch failed
Snapshot == IF trace[ListPos].ev = "list_ok" THEN BuildIndex(table, AtFetch) ELSE EmptyIndex

\* C24: a call of sync_records fetches the index once, before its first candidate;
\* while the candidates are processed the index stays the index of the table as it was
\* at the fetch, whatever the call has created since; a candidate with date and time
\* is skipped if its key is in that index and sent to create_record if it is not.
C24_Snapshot ==
    InSync =>
        /\ Cardinality(EventsOf(run, sheet_i, Lists)) = 1
        /\ \A k \in EventsOf(run, sheet_i, Outcomes) : ListPos < k
        /\ existing = Snapshot
        /\ \A k \in EventsOf(run, sheet_i, {"skip"}) :
              CandidateKey(table, records[trace[k].i]) \in DOMAIN Snapshot
        /\ \A k \in EventsOf(run, sheet_i, Creates) :
              CandidateKey(table, records[trace[k].i]) \notin DOMAIN Snapshot

\* the call created its first candidate, whose key the index still lacks, and then sent
\* the second, which has the same key, to create_record
C24_Witness ==
    /\ pc = "wait_create"
    /\ rec_i = 2
    /\ EventsAbout(run, sheet_i, 1, {"create_ok"}) # {}
    /\ CandidateKey(table, records[1]) = CandidateKey(table, records[2])
    /\ Len(store[table]) > Len(AtFetch)

(***************************************************************************)
(* main over workbooks with sparse sheets: rows that give no candidate     *)
(***************************************************************************)
\* a row with nothing but a location (pandas reads an empty cell as nan), a row of
\* 13:05, which the sampler does not select, and a row of 12:03
SparseRows ==
    << [c \in AllColumns |-> IF c = "Location" THEN <<"H", "a", "l", "l">> ELSE S_nan],
       MakeRow(Day1, At(Day1, "1", "3", "0", "5"), <<"3">>),
       RowPool[1] >>

SparseFrame(indices) ==
    [columns |-> AllColumns, rows |-> [i \in 1..Len(indices) |-> SparseRows[indices[i]]]]

SparseBooks ==
    { [s \in 1..Len(SheetNames) |-> [name |-> SheetNames[s], df |-> SparseFrame(pick[s])]] :
        pick \in [1..Len(SheetNames) -> SeqsUpTo(1..Len(SparseRows), MaxRows)] }

SparseInit ==
    /\ book \in SparseBooks
    /\ store = [t \in Tables |-> <<>>]
    /\ run = 1
    /\ pc = "start"
    /\ sensor_types = <<>>
    /\ sheet_i = 0
    /\ table = AlertTable
    /\ records = <<>>
    /\ existing = EmptyIndex
    /\ rec_i = 0
    /\ cnt = NoCount
    /\ total = NoCount
    /\ exit_code = 0
    /\ inflight = {}
    /\ faults = 0
    /\ trace = <<>>
    /\ hist = <<>>
    /\ sampled = <<>>
    /\ arg = <<>>
    /\ out = <<>>

SpecSparse == SparseInit /\ [][Next]_vars

(***************************************************************************)
(* C25  No candidates, no remote I/O                                       *)
(***************************************************************************)
\* the sheet has no rows, or it is a measurement sheet of which the sampler returns none
NothingToMap(sheet) ==
    \/ sheet.df.rows = <<>>
    \/ ~IsAlertSheet(sheet.name) /\ filter_sensor_data_by_hour(sheet.df).rows = <<>>

\* the requests and candidates of sheet s of run r that the trace knows of
SheetActivity(r, s) == {k \in RunActivity(r) : trace[k].sheet = s}

\* C25: sync_records with an empty candidate list returns (0, 0, 0) with no request
\* made; a sheet without rows and a measurement sheet whose sample is empty never
\* reach sync_records; neither kind of sheet leaves a request or an outcome behind,
\* and a run over such sheets alone ends with totals of zero and the store as it was.
C25_NoCandidatesNoIO ==
    /\ pc = "sync_return" =>
          /\ records = <<>>
          /\ cnt = NoCount
          /\ inflight = {}
    /\ pc = "wait_existing" => records # <<>>
    /\ Routed => ~NothingToMap(book[sheet_i])
    /\ \A r \in 1..run : \A s \in 1..Len(book) :
          (NothingToMap(book[s]) \/ Cands(r, s) = <<>>) => SheetActivity(r, s) = {}
    /\ (pc = "done" /\ Completed(run) /\ \A s \in 1..Len(book) : Cands(run, s) = <<>>) =>
          /\ total = NoCount
          /\ exit_code = 0
          /\ \A t \in Tables : store[t] = <<>>

\* a run has ended over an alert sheet with rows and no candidate and a measurement
\* sheet with rows of which none was sampled: its only request was the lookup
C25_Witness ==
    /\ pc = "done"
    /\ Completed(run)
    /\ book[1].df.rows # <<>> /\ Cands(run, 1) = <<>>
    /\ book[2].df.rows # <<>> /\ NothingToMap(book[2])
    /\ Len(trace) = 1

=============================================================================
